---- MODULE Spec2Model ----
(***************************************************************************)
(* A model of ros2_clang_tidy/main.py: file enumeration (find_cpp_files),  *)
(* the command builder (build_clang_tidy_command), the package scanner     *)
(* (ClangTidyPackageScanner) and the dispatcher / reporter                 *)
(* (process_packages, main).                                               *)
(*                                                                         *)
(* File and directory names are sequences of one-character strings, so     *)
(* that str.lower() and Path.suffix are computed and not assumed.          *)
(* Python's None is the empty tuple <<>> and a str value s is <<s>>.       *)
(***************************************************************************)
EXTENDS Integers, Sequences, FiniteSets, TLC

VARIABLES
    \* find_cpp_files: the package directory tree and the os.walk traversal
    tree_parent, tree_name, walk_stack, cpp_files, walk_pc,
    \* build_clang_tidy_command: its arguments and the returned list
    cmd_args, command, cmd_pc,
    \* the workspace on disk: install/ and, per directory of it, the package
    install_exists, install_dirs,
    \* ClangTidyPackageScanner and its construction in main
    all_packages, scan_pc, abort_cause, package_paths, package_cpp_files,
    choices, hist,
    \* main and process_packages: the parsed arguments, the command list, the
    \* thread pool's workers and futures, the reporter's counters
    args, clang_tidy_commands, workers, futures, results, drained,
    total_errors, total_warnings, package_errors, exit_status, pc,
    \* outside the program: the tool process of each command, and the log files
    proc, launches, log_files

walkVars == <<tree_parent, tree_name, walk_stack, cpp_files, walk_pc>>
cmdVars == <<cmd_args, command, cmd_pc>>
worldVars == <<install_exists, install_dirs>>
scanVars == <<all_packages, scan_pc, abort_cause, package_paths, package_cpp_files,
              choices, hist>>
reportVars == <<results, drained, total_errors, total_warnings, package_errors, exit_status>>
runVars == <<args, clang_tidy_commands, workers, futures, reportVars, pc>>
envVars == <<proc, launches, log_files>>
vars == <<walkVars, cmdVars, worldVars, scanVars, runVars, envVars>>

\* the sub-models a specification does not run stay in these states
NoHist == [pre |-> <<>>, ops |-> <<>>]

WalkIdle ==
    /\ tree_parent = <<>> /\ tree_name = <<>> /\ walk_stack = <<>>
    /\ cpp_files = <<>> /\ walk_pc = "idle"

CmdIdle == cmd_args = <<>> /\ command = <<>> /\ cmd_pc = "idle"

WorldIdle == install_exists = FALSE /\ install_dirs = <<>>

ScanIdle ==
    /\ all_packages = <<>> /\ scan_pc = "idle" /\ abort_cause = "none"
    /\ package_paths = <<>> /\ package_cpp_files = <<>> /\ choices = <<>>
    /\ hist = NoHist

RunIdle ==
    /\ args = <<>> /\ clang_tidy_commands = <<>> /\ workers = <<>> /\ futures = <<>>
    /\ results = <<>> /\ drained = 0 /\ total_errors = 0 /\ total_warnings = 0
    /\ package_errors = <<>> /\ exit_status = -1 /\ pc = "idle"
    /\ proc = <<>> /\ launches = <<>> /\ log_files = <<>>

\* ------------------------------------------------------------------ bounds

MaxDirs == 4

\* the most source files a package holds
MaxFiles == 2

\* the largest --jobs value
MaxJobs == 2

\* the most commands of one run
MaxTasks == 2

\* ------------------------------------------------------------ text helpers

RECURSIVE SeqSum(_)
SeqSum(s) == IF s = <<>> THEN 0 ELSE Head(s) + SeqSum(Tail(s))

Range(s) == {s[i] : i \in 1..Len(s)}

Reverse(s) == [i \in 1..Len(s) |-> s[Len(s) + 1 - i]]

\* str.lower() on the letters the model's names use
LowerChar(c) ==
    CASE c = "T" -> "t"
      [] c = "E" -> "e"
      [] c = "S" -> "s"
      [] c = "C" -> "c"
      [] c = "P" -> "p"
      [] c = "H" -> "h"
      [] OTHER -> c

Lower(s) == [i \in 1..Len(s) |-> LowerChar(s[i])]

\* str.rfind("."), 1-based; 0 when there is no dot
RFindDot(name) ==
    LET dots == {i \in 1..Len(name) : name[i] = "."}
    IN  IF dots = {} THEN 0 ELSE CHOOSE i \in dots : \A j \in dots : j <= i

\* pathlib's Path.suffix: the text from the last dot on, unless that dot
\* starts or ends the name
Suffix(name) ==
    LET i == RFindDot(name)
    IN  IF 1 < i /\ i < Len(name) THEN SubSeq(name, i, Len(name)) ELSE <<>>

\* ------------------------------------------------------- find_cpp_files

NameTest == <<"t", "e", "s", "t">>

DirNames ==
    { <<"s", "r", "c">>,
      <<"t", "e", "s", "t">>,
      <<"T", "e", "s", "t">>,
      <<"T", "E", "S", "T">>,
      <<"t", "e", "s", "t", "s">> }

\* the package root is the directory of package.xml; a package may be
\* called test
RootNames == { <<"p", "k", "g">>, <<"t", "e", "s", "t">> }

\* the files every directory of the tree holds: a.cpp b.CC x.h .c
FileNames ==
    << <<"a", ".", "c", "p", "p">>,
       <<"b", ".", "C", "C">>,
       <<"x", ".", "h">>,
       <<".", "c">> >>

SourceSuffixes ==
    { <<".", "c", "p", "p">>, <<".", "c", "c">>, <<".", "c">> }

Dirs == 1..MaxDirs

\* the directories below the root are 2..MaxDirs; a directory's parent has a
\* smaller number, and no two entries of one directory share a name
IsTree(parent, name) ==
    /\ \A d \in Dirs \ {1} : parent[d] < d
    /\ \A d, e \in Dirs \ {1} :
          (d # e /\ parent[d] = parent[e]) => name[d] # name[e]

RECURSIVE PathOf(_)
PathOf(d) ==
    IF d = 1 THEN <<tree_name[1]>> ELSE Append(PathOf(tree_parent[d]), tree_name[d])

\* the sub-directories os.walk lists for a directory, in listing order
RECURSIVE SubDirsFrom(_, _)
SubDirsFrom(d, e) ==
    IF e > MaxDirs THEN <<>>
    ELSE (IF tree_parent[e] = d THEN <<e>> ELSE <<>>) \o SubDirsFrom(d, e + 1)

SubDirs(d) == SubDirsFrom(d, 2)

\* KeepDir without lower(): the name is compared as it is spelled
KeepDirCaseSensitive(directory) == directory # NameTest

\* line 84: directory.lower() != "test"
KeepDir(directory) == Lower(directory) # NameTest

\* line 89: file_path.suffix.lower() in [".cpp", ".cc", ".c"]
IsSourceFile(file_name) == Lower(Suffix(file_name)) \in SourceSuffixes

\* lines 86-90: the files of one directory, in listing order
RECURSIVE CollectFiles(_, _)
CollectFiles(current_root, files) ==
    IF files = <<>> THEN <<>>
    ELSE (IF IsSourceFile(Head(files)) THEN <<Append(current_root, Head(files))>> ELSE <<>>)
         \o CollectFiles(current_root, Tail(files))

WalkInit ==
    /\ \E parent \in [Dirs \ {1} -> Dirs], name \in [Dirs \ {1} -> DirNames], root \in RootNames :
          /\ IsTree(parent, name)
          /\ tree_parent = [d \in Dirs |-> IF d = 1 THEN 0 ELSE parent[d]]
          /\ tree_name = [d \in Dirs |-> IF d = 1 THEN root ELSE name[d]]
    /\ walk_stack = <<1>>
    /\ cpp_files = <<>>
    /\ walk_pc = "walking"

\* one iteration of the os.walk loop: prune dirs, collect files, descend
WalkStep ==
    /\ walk_pc = "walking"
    /\ walk_stack # <<>>
    /\ LET d == Head(walk_stack)
           dirs == SelectSeq(SubDirs(d), LAMBDA e : KeepDir(tree_name[e]))
       IN  /\ cpp_files' = cpp_files \o CollectFiles(PathOf(d), FileNames)
           /\ walk_stack' = dirs \o Tail(walk_stack)
    /\ UNCHANGED <<tree_parent, tree_name, walk_pc>>

\* line 92: return cpp_files
WalkReturn ==
    /\ walk_pc = "walking"
    /\ walk_stack = <<>>
    /\ walk_pc' = "done"
    /\ UNCHANGED <<tree_parent, tree_name, walk_stack, cpp_files>>

WalkNext ==
    \/ WalkStep /\ UNCHANGED <<cmdVars, worldVars, scanVars, runVars, envVars>>
    \/ WalkReturn /\ UNCHANGED <<cmdVars, worldVars, scanVars, runVars, envVars>>

InitWalk == WalkInit /\ CmdIdle /\ WorldIdle /\ ScanIdle /\ RunIdle

SpecWalk == InitWalk /\ [][WalkNext]_vars

\* ---------------------------------------------- build_clang_tidy_command

None == <<>>

\* the values an optional str argument takes: None, "" and a text
OptionValues(text) == {None, <<"">>, <<text>>}

\* Truthy as an `is not None` test: the empty string counts as set
TruthyNotNone(value) == value # None

\* lines 192, 195, 201: Python's truth value of an Optional[str]
Truthy(value) == value # None /\ value[1] # ""

\* lines 188-209; an argument is the tuple of the pieces of its f-string
BuildCommand(a) ==
    <<  <<a.clang_tidy_cmd>>, <<"-p">>, <<"build/", a.package_name>>,
        <<"--header-filter=", a.package_path, "/.*">>  >>
    \o (IF Truthy(a.config) THEN << <<"--config=", a.config[1]>> >> ELSE <<>>)
    \o (IF Truthy(a.config_file) THEN << <<"--config-file=", a.config_file[1]>> >> ELSE <<>>)
    \o (IF a.fix_errors THEN << <<"--fix-errors">> >> ELSE <<>>)
    \o (IF Truthy(a.export_fixes_path)
        THEN << <<"--export-fixes=", a.export_fixes_path[1]>> >> ELSE <<>>)
    \o (IF a.use_color THEN << <<"--use-color">> >> ELSE <<>>)
    \o << <<a.source_file>> >>

PackageNames == {"pkg_a", "pkg_b"}

CmdArgs ==
    [ clang_tidy_cmd : {"clang-tidy"},
      package_name : PackageNames,
      package_path : {"/ws/src/pkg"},
      source_file : {"/ws/src/pkg/src/a.cpp"},
      config : OptionValues("{Checks: '*'}"),
      config_file : OptionValues(".clang-tidy"),
      fix_errors : BOOLEAN,
      export_fixes_path : OptionValues("fixes.yaml"),
      use_color : BOOLEAN ]

CmdInit ==
    /\ cmd_args \in CmdArgs
    /\ command = <<>>
    /\ cmd_pc = "call"

BuildClangTidyCommand ==
    /\ cmd_pc = "call"
    /\ command' = BuildCommand(cmd_args)
    /\ cmd_pc' = "done"
    /\ UNCHANGED cmd_args

CmdNext == BuildClangTidyCommand /\ UNCHANGED <<walkVars, worldVars, scanVars, runVars, envVars>>

InitCmd == CmdInit /\ WalkIdle /\ WorldIdle /\ ScanIdle /\ RunIdle

SpecCmd == InitCmd /\ [][CmdNext]_vars

\* ------------------------------------------------ ClangTidyPackageScanner

\* a path is the tuple of its components
SourceDirs == { <<"ws", "src", "core">>, <<"ws", "src", "extra">> }

BasePaths ==
    { <<"ws", "src">>, <<"ws", "src", "core">>, <<"ws", "src", "core", "..", "extra">> }

\* Path.resolve() on an absolute path without symlinks
RECURSIVE Resolve(_)
Resolve(path) ==
    IF path = <<>> THEN <<>>
    ELSE LET front == Resolve(SubSeq(path, 1, Len(path) - 1))
             last == path[Len(path)]
         IN  IF last = "." THEN front
             ELSE IF last = ".."
                  THEN (IF front = <<>> THEN <<>> ELSE SubSeq(front, 1, Len(front) - 1))
                  ELSE Append(front, last)

\* Path.is_relative_to
IsRelativeTo(path, base) ==
    Len(base) <= Len(path) /\ SubSeq(path, 1, Len(base)) = base

SourceFile(root, k) == root \o <<"src", ToString(k)>>

\* what find_cpp_files returns for a package with n source files
FoundFiles(root, n) == [k \in 1..n |-> SourceFile(root, k)]

\* the "file" entries of a compile_commands.json that names the files built
BuiltFiles(root, built) ==
    LET RECURSIVE From(_)
        From(k) == IF k > MaxFiles THEN <<>>
                   ELSE (IF k \in built THEN <<SourceFile(root, k)>> ELSE <<>>) \o From(k + 1)
    IN  Reverse(From(1))

\* one directory of install/: whether share/<name>/package.xml exists, where
\* it resolves to, the package's source files, and build/<name>/
\* compile_commands.json
NoPackage == [has_xml |-> FALSE, root |-> <<>>, found |-> 0,
              manifest_exists |-> FALSE, built |-> {}]

InstallDirStates ==
    {NoPackage} \cup
    [ has_xml : {TRUE}, root : SourceDirs, found : 0..MaxFiles,
      manifest_exists : {TRUE}, built : SUBSET (1..MaxFiles) ] \cup
    [ has_xml : {TRUE}, root : SourceDirs, found : 0..MaxFiles,
      manifest_exists : {FALSE}, built : {{}} ]

PackageRoot(name) == Append(install_dirs[name].root, name)

\* lines 26-43: get_all_packages, given the order iterdir() lists install/
GetAllPackages(order) ==
    LET listed == SelectSeq(order, LAMBDA name : install_dirs[name].has_xml)
    IN  [i \in 1..Len(listed) |-> [name |-> listed[i], path |-> PackageRoot(listed[i])]]

\* lines 102-103: keep the files the manifest names
FilterCppFilesByCompileCommands(files, package_name) ==
    LET builded_files ==
            BuiltFiles(PackageRoot(package_name), install_dirs[package_name].built)
    IN  SelectSeq(files, LAMBDA path : path \in Range(builded_files))

\* HasSources without the test of line 122
HasSourcesAlways(files) == TRUE

\* line 122: if cpp_files
HasSources(files) == Len(files) > 0

Keys(dict) == [i \in 1..Len(dict) |-> dict[i].name]

Pop(dict, name) == SelectSeq(dict, LAMBDA entry : entry.name # name)

\* lines 59-65: filter_packages_by_base_path
FilterPackagesByBasePath(packages, base_path) ==
    SelectSeq(packages, LAMBDA entry : IsRelativeTo(Resolve(entry.path), Resolve(base_path)))

\* KeepListedCppFiles without the filter: package_cpp_files is left as it was
KeepAllCppFiles(paths, files) == files

\* lines 134-138: the file lists of the packages package_paths still has
KeepListedCppFiles(paths, files) ==
    SelectSeq(files, LAMBDA entry : entry.name \in Range(Keys(paths)))

\* lines 133-138: apply_base_path_filter, as the new (paths, files)
BasePathFiltered(paths, files, base_path) ==
    LET kept == FilterPackagesByBasePath(paths, base_path)
    IN  [paths |-> kept, files |-> KeepListedCppFiles(kept, files), error |-> FALSE]

\* lines 147-150: select_packages; dict.pop of a missing key raises KeyError
RECURSIVE SelectLoop(_, _, _, _)
SelectLoop(names, paths, files, selected_packages) ==
    IF names = <<>> THEN [paths |-> paths, files |-> files, error |-> FALSE]
    ELSE IF Head(names) \in selected_packages
         THEN SelectLoop(Tail(names), paths, files, selected_packages)
         ELSE IF Head(names) \notin Range(Keys(files))
              THEN [paths |-> Pop(paths, Head(names)), files |-> files, error |-> TRUE]
              ELSE SelectLoop(Tail(names), Pop(paths, Head(names)),
                              Pop(files, Head(names)), selected_packages)

Selected(paths, files, selected_packages) ==
    SelectLoop(Keys(paths), paths, files, selected_packages)

ApplyOp(paths, files, op) ==
    IF op.op = "select" THEN Selected(paths, files, op.arg)
    ELSE BasePathFiltered(paths, files, op.arg)

Orders == { <<"pkg_a", "pkg_b">>, <<"pkg_b", "pkg_a">> }

ScanInit ==
    /\ install_exists \in BOOLEAN
    /\ install_dirs \in [PackageNames -> InstallDirStates]
    /\ all_packages = <<>>
    /\ scan_pc = "get_all_packages"
    /\ abort_cause = "none"
    /\ package_paths = <<>>
    /\ package_cpp_files = <<>>
    /\ choices = <<>>
    /\ hist = NoHist

\* line 116; a missing install/ raises FileNotFoundError out of main
CallGetAllPackages ==
    /\ scan_pc = "get_all_packages"
    /\ IF install_exists
       THEN \E order \in Orders :
               /\ all_packages' = GetAllPackages(order)
               /\ scan_pc' = "scanning"
               /\ UNCHANGED abort_cause
       ELSE /\ scan_pc' = "aborted"
            /\ abort_cause' = "install"
            /\ UNCHANGED all_packages
    /\ UNCHANGED <<worldVars, package_paths, package_cpp_files, choices, hist>>

\* lines 117-124: one iteration of the constructor's loop; open() of a
\* missing compile_commands.json raises FileNotFoundError out of main
ScanPackage ==
    /\ scan_pc = "scanning"
    /\ all_packages # <<>>
    /\ LET package_name == Head(all_packages).name
           package_path == Head(all_packages).path
           found == FoundFiles(package_path, install_dirs[package_name].found)
       IN  IF Len(found) = 0
           THEN UNCHANGED <<scan_pc, abort_cause, package_paths, package_cpp_files>>
           ELSE IF ~install_dirs[package_name].manifest_exists
                THEN /\ scan_pc' = "aborted"
                     /\ abort_cause' = "manifest"
                     /\ UNCHANGED <<package_paths, package_cpp_files>>
                ELSE LET files == FilterCppFilesByCompileCommands(found, package_name)
                     IN  /\ IF HasSources(files)
                            THEN /\ package_paths' = Append(package_paths,
                                        [name |-> package_name, path |-> package_path])
                                 /\ package_cpp_files' = Append(package_cpp_files,
                                        [name |-> package_name, files |-> files])
                            ELSE UNCHANGED <<package_paths, package_cpp_files>>
                         /\ UNCHANGED <<scan_pc, abort_cause>>
    /\ all_packages' = Tail(all_packages)
    /\ UNCHANGED <<worldVars, choices, hist>>

\* lines 326, 377: the scanner is built; --packages-select takes its choices
\* from list_available_packages()
ScannerBuilt ==
    /\ scan_pc = "scanning"
    /\ all_packages = <<>>
    /\ scan_pc' = "ready"
    /\ choices' = Keys(package_paths)
    /\ hist' = [pre |-> [paths |-> package_paths, files |-> package_cpp_files], ops |-> <<>>]
    /\ UNCHANGED <<worldVars, all_packages, abort_cause, package_paths, package_cpp_files>>

\* the last two calls and the scanner they started from
Remember(op) ==
    IF Len(hist.ops) < 2
    THEN [hist EXCEPT !.ops = Append(@, op)]
    ELSE LET first == ApplyOp(hist.pre.paths, hist.pre.files, hist.ops[1])
         IN  [pre |-> [paths |-> first.paths, files |-> first.files],
              ops |-> <<hist.ops[2], op>>]

Call(op) ==
    /\ scan_pc = "ready"
    /\ LET after == ApplyOp(package_paths, package_cpp_files, op)
       IN  /\ package_paths' = after.paths
           /\ package_cpp_files' = after.files
           /\ scan_pc' = IF after.error THEN "aborted" ELSE "ready"
           /\ abort_cause' = IF after.error THEN "KeyError" ELSE abort_cause
    /\ hist' = Remember(op)
    /\ UNCHANGED <<worldVars, all_packages, choices>>

\* lines 140-150
SelectPackages == \E selected \in SUBSET PackageNames : Call([op |-> "select", arg |-> selected])

\* lines 126-138
ApplyBasePathFilter == \E base_path \in BasePaths : Call([op |-> "filter", arg |-> base_path])

ScanNext ==
    \/ CallGetAllPackages /\ UNCHANGED <<walkVars, cmdVars, runVars, envVars>>
    \/ ScanPackage /\ UNCHANGED <<walkVars, cmdVars, runVars, envVars>>
    \/ ScannerBuilt /\ UNCHANGED <<walkVars, cmdVars, runVars, envVars>>
    \/ SelectPackages /\ UNCHANGED <<walkVars, cmdVars, runVars, envVars>>
    \/ ApplyBasePathFilter /\ UNCHANGED <<walkVars, cmdVars, runVars, envVars>>

InitScan == ScanInit /\ WalkIdle /\ CmdIdle /\ RunIdle

SpecScan == InitScan /\ [][ScanNext]_vars

\* ------------------------------------------- process_packages and main

\* captured text is the tuple of its pieces; "error: " and "warning: " are
\* the pieces the reporter counts
ToolOutcomes ==
    { [returncode |-> 0, stdout |-> <<>>, stderr |-> <<>>],
      [returncode |-> 0, stdout |-> <<"f.cpp:1:1: ", "warning: ", "unused">>, stderr |-> <<>>],
      [returncode |-> 1, stdout |-> <<"error: ", "x", "warning: ", "y", "error: ", "z">>,
       stderr |-> <<"3 warnings and errors generated.">>] }

\* str.count
Count(text, marker) == Cardinality({i \in 1..Len(text) : text[i] = marker})

CompletedProcess(cmd, returncode, stdout, stderr) ==
    [args |-> cmd, returncode |-> returncode, stdout |-> stdout, stderr |-> stderr]

NoFuture == [kind |-> "pending"]

Returned(package_name, result) ==
    [kind |-> "returned", package_name |-> package_name, result |-> result]

\* OnException without the except clause: the exception leaves the call
OnExceptionRaise(package_name, cmd, error) ==
    [kind |-> "raised", package_name |-> package_name,
     result |-> CompletedProcess(cmd, 1, <<>>, <<error>>)]

\* lines 284-290: any exception of the try block becomes a failed result
OnException(package_name, cmd, error) ==
    Returned(package_name, CompletedProcess(cmd, 1, <<>>, <<error>>))

\* PoolSize with one thread too many
PoolSizeOneMore(jobs) == jobs + 1

\* line 293: ThreadPoolExecutor(max_workers=args.jobs)
PoolSize(jobs) == jobs

\* ExitStatus that also fails the run on warnings
ExitStatusCountsWarnings(errors, warnings) == IF errors + warnings > 0 THEN 1 ELSE 0

\* lines 425-427: sys.exit(1) when errors were counted, else the end of main
ExitStatus(errors, warnings) == IF errors > 0 THEN 1 ELSE 0

\* lines 237-249: the commands of one package
CommandsOf(package_name, package_path, files) ==
    [k \in 1..Len(files) |->
        [package_name |-> package_name,
         cmd |-> BuildCommand([clang_tidy_cmd |-> "clang-tidy",
                               package_name |-> package_name,
                               package_path |-> package_path,
                               source_file |-> files[k],
                               config |-> None, config_file |-> None,
                               fix_errors |-> FALSE, export_fixes_path |-> None,
                               use_color |-> FALSE])]]

\* lines 232-249
RECURSIVE CollectCommands(_, _)
CollectCommands(paths, files) ==
    IF paths = <<>> THEN <<>>
    ELSE CommandsOf(paths[1].name, paths[1].path,
                    (CHOOSE entry \in Range(files) : entry.name = paths[1].name).files)
         \o CollectCommands(Tail(paths), files)

\* the scanners main hands over: packages in install order, each with at
\* least one file
Scanners ==
    { counts \in [PackageNames -> 0..MaxTasks] :
        counts["pkg_a"] + counts["pkg_b"] \in 1..MaxTasks }

ScannerPaths(counts) ==
    LET names == SelectSeq(<<"pkg_a", "pkg_b">>, LAMBDA name : counts[name] > 0)
    IN  [i \in 1..Len(names) |-> [name |-> names[i], path |-> <<"ws", "src", names[i]>>]]

ScannerFiles(counts) ==
    LET names == SelectSeq(<<"pkg_a", "pkg_b">>, LAMBDA name : counts[name] > 0)
    IN  [i \in 1..Len(names) |->
            [name |-> names[i], files |-> FoundFiles(<<"ws", "src", names[i]>>, counts[names[i]])]]

Tasks == 1..Len(clang_tidy_commands)

Idle == [pc |-> "idle", task |-> 0, result |-> <<>>]

RunInit ==
    /\ args \in [jobs : 1..MaxJobs, output_dir : {None, <<"out">>}, output_all : BOOLEAN]
    /\ \E counts \in Scanners :
          /\ package_paths = ScannerPaths(counts)
          /\ package_cpp_files = ScannerFiles(counts)
          /\ choices = Keys(ScannerPaths(counts))
    /\ all_packages = <<>> /\ scan_pc = "ready" /\ abort_cause = "none" /\ hist = NoHist
    /\ clang_tidy_commands = <<>> /\ workers = <<>> /\ futures = <<>>
    /\ results = <<>> /\ drained = 0 /\ total_errors = 0 /\ total_warnings = 0
    /\ package_errors = <<>> /\ exit_status = -1 /\ pc = "collect"
    /\ proc = <<>> /\ launches = <<>> /\ log_files = <<>>

\* lines 226-249 and 293-296: the commands are collected, the pool is made
\* and every command is submitted to it
Submit ==
    /\ pc = "collect"
    /\ LET commands == CollectCommands(package_paths, package_cpp_files)
       IN  /\ clang_tidy_commands' = commands
           /\ futures' = [i \in 1..Len(commands) |-> NoFuture]
           /\ proc' = [i \in 1..Len(commands) |-> [state |-> "none", stdout |-> <<>>]]
           /\ launches' = [i \in 1..Len(commands) |-> 0]
    /\ workers' = [w \in 1..PoolSize(args.jobs) |-> Idle]
    /\ log_files' = [name \in PackageNames |-> <<>>]
    /\ pc' = "dispatch"
    /\ UNCHANGED <<args, reportVars>>

\* the pool's queue: the commands no worker has taken yet, oldest first
Queued ==
    {i \in Tasks : futures[i].kind = "pending" /\ \A w \in DOMAIN workers : workers[w].task # i}

NextQueued == CHOOSE i \in Queued : \A j \in Queued : i <= j

PackageOf(i) == clang_tidy_commands[i].package_name

CmdOf(i) == clang_tidy_commands[i].cmd

\* the pool hands a command to an idle thread before it starts another one
TakesNext(w) ==
    /\ workers[w].pc = "idle"
    /\ \A v \in DOMAIN workers : v < w => workers[v].pc # "idle"

\* lines 263-271: an idle worker takes the next command and the tool starts
StartTool(w) ==
    /\ pc = "dispatch"
    /\ TakesNext(w)
    /\ Queued # {}
    /\ LET i == NextQueued
       IN  /\ workers' = [workers EXCEPT ![w] = [pc |-> "running", task |-> i, result |-> <<>>]]
           /\ proc' = [proc EXCEPT ![i].state = "running"]
           /\ launches' = [launches EXCEPT ![i] = @ + 1]
    /\ UNCHANGED <<args, clang_tidy_commands, futures, reportVars, pc, log_files>>

\* lines 265, 284-290: an idle worker takes the next command and
\* subprocess.run raises because the tool cannot be started
LaunchFails(w) ==
    /\ pc = "dispatch"
    /\ TakesNext(w)
    /\ Queued # {}
    /\ LET i == NextQueued
       IN  /\ futures' = [futures EXCEPT ![i] =
                  OnException(PackageOf(i), CmdOf(i),
                              "[Errno 2] No such file or directory: 'clang-tidy'")]
           /\ proc' = [proc EXCEPT ![i].state = "no_launch"]
           /\ launches' = [launches EXCEPT ![i] = @ + 1]
    /\ UNCHANGED <<args, clang_tidy_commands, workers, reportVars, pc, log_files>>

\* lines 265-282: the tool exits; with an output directory the worker makes
\* it and, when there is something to log, opens the package's log to append
ToolExits(w) ==
    /\ pc = "dispatch"
    /\ workers[w].pc = "running"
    /\ \E outcome \in ToolOutcomes, fs_ok \in BOOLEAN :
          LET i == workers[w].task
              result == CompletedProcess(CmdOf(i), outcome.returncode,
                                         outcome.stdout, outcome.stderr)
              has_some_output == Len(result.stdout) > 0 \/ Len(result.stderr) > 0
              logging == Truthy(args.output_dir)
          IN  /\ proc' = [proc EXCEPT ![i] = [state |-> "exited", stdout |-> outcome.stdout]]
              /\ IF logging /\ ~fs_ok
                 THEN /\ futures' = [futures EXCEPT ![i] =
                            OnException(PackageOf(i), CmdOf(i),
                                        "[Errno 13] Permission denied: 'out'")]
                      /\ workers' = [workers EXCEPT ![w] = Idle]
                 ELSE IF logging /\ (args.output_all \/ has_some_output)
                      THEN /\ workers' = [workers EXCEPT ![w] =
                                 [pc |-> "log_open", task |-> i, result |-> result]]
                           /\ UNCHANGED futures
                      ELSE /\ futures' = [futures EXCEPT ![i] = Returned(PackageOf(i), result)]
                           /\ workers' = [workers EXCEPT ![w] = Idle]
    /\ UNCHANGED <<args, clang_tidy_commands, reportVars, pc, launches, log_files>>

\* lines 279-282: the worker writes its report to the open log, closes it and
\* returns; a failing write raises
WriteLog(w) ==
    /\ pc = "dispatch"
    /\ workers[w].pc = "log_open"
    /\ \E fs_ok \in BOOLEAN :
          LET i == workers[w].task
          IN  IF fs_ok
              THEN /\ log_files' = [log_files EXCEPT ![PackageOf(i)] = Append(@, i)]
                   /\ futures' = [futures EXCEPT ![i] = Returned(PackageOf(i), workers[w].result)]
              ELSE /\ futures' = [futures EXCEPT ![i] =
                         OnException(PackageOf(i), CmdOf(i),
                                     "[Errno 13] Permission denied: 'out'")]
                   /\ UNCHANGED log_files
    /\ workers' = [workers EXCEPT ![w] = Idle]
    /\ UNCHANGED <<args, clang_tidy_commands, reportVars, pc, proc, launches>>

\* lines 304-311: the reporter's loop over results[k..], from the counters so far
RECURSIVE DrainFrom(_, _, _)
DrainFrom(res, k, counters) ==
    IF k > Len(res) THEN counters
    ELSE LET package_name == res[k].package_name
             error_count == Count(res[k].result.stdout, "error: ")
             warning_count == Count(res[k].result.stdout, "warning: ")
             seen == DOMAIN counters.package_errors
         IN  DrainFrom(res, k + 1,
                [total_errors |-> counters.total_errors + error_count,
                 total_warnings |-> counters.total_warnings + warning_count,
                 package_errors |->
                    [name \in seen \cup {package_name} |->
                        IF name = package_name
                        THEN (IF name \in seen THEN counters.package_errors[name] ELSE 0)
                             + error_count
                        ELSE counters.package_errors[name]]])

\* lines 293-319: list(executor.map(...)) has every result, or re-raises the
\* exception of a call, which leaves main; the reporter then counts the
\* markers of every result and process_packages returns the totals (what
\* it prints is not part of the state)
Report ==
    /\ pc = "dispatch"
    /\ \A i \in Tasks : futures[i].kind # "pending"
    /\ IF \E i \in Tasks : futures[i].kind = "raised"
       THEN /\ pc' = "crashed"
            /\ exit_status' = 1
            /\ UNCHANGED <<results, drained, total_errors, total_warnings, package_errors>>
       ELSE LET res == [i \in Tasks |->
                          [package_name |-> futures[i].package_name,
                           result |-> futures[i].result]]
                counters == DrainFrom(res, 1,
                               [total_errors |-> total_errors,
                                total_warnings |-> total_warnings,
                                package_errors |-> package_errors])
            IN  /\ pc' = "returned"
                /\ results' = res
                /\ drained' = Len(res)
                /\ total_errors' = counters.total_errors
                /\ total_warnings' = counters.total_warnings
                /\ package_errors' = counters.package_errors
                /\ UNCHANGED exit_status
    /\ UNCHANGED <<args, clang_tidy_commands, workers, futures, envVars>>

\* lines 420-427: main prints the totals and exits
Exit ==
    /\ pc = "returned"
    /\ exit_status' = ExitStatus(total_errors, total_warnings)
    /\ pc' = "exited"
    /\ UNCHANGED <<args, clang_tidy_commands, workers, futures, results, drained,
                   total_errors, total_warnings, package_errors, envVars>>

RunNext ==
    \/ Submit /\ UNCHANGED <<walkVars, cmdVars, worldVars, scanVars>>
    \/ \E w \in DOMAIN workers : StartTool(w) /\ UNCHANGED <<walkVars, cmdVars, worldVars, scanVars>>
    \/ \E w \in DOMAIN workers : LaunchFails(w) /\ UNCHANGED <<walkVars, cmdVars, worldVars, scanVars>>
    \/ \E w \in DOMAIN workers : ToolExits(w) /\ UNCHANGED <<walkVars, cmdVars, worldVars, scanVars>>
    \/ \E w \in DOMAIN workers : WriteLog(w) /\ UNCHANGED <<walkVars, cmdVars, worldVars, scanVars>>
    \/ Report /\ UNCHANGED <<walkVars, cmdVars, worldVars, scanVars>>
    \/ Exit /\ UNCHANGED <<walkVars, cmdVars, worldVars, scanVars>>

InitRun == RunInit /\ WalkIdle /\ CmdIdle /\ WorldIdle

\* the threads of the pool and the tool processes they wait for all run on:
\* a step that can be taken is taken
Spec == InitRun /\ [][RunNext]_vars /\ WF_vars(RunNext)

\* ---------------------------------------------------------------- C1

\* the "error: " markers in the captured standard output of all results
ResultErrors ==
    SeqSum([i \in 1..Len(results) |-> Count(results[i].result.stdout, "error: ")])

ResultWarnings ==
    SeqSum([i \in 1..Len(results) |-> Count(results[i].result.stdout, "warning: ")])

\* C1: main exits with a non-zero status exactly when the results' standard
\* output holds an "error: " marker; warnings do not matter, and without a
\* counted error the status is 0.
C1_ExitStatusLaw ==
    pc = "exited" =>
        /\ exit_status # 0 <=> ResultErrors > 0
        /\ ResultErrors = 0 => exit_status = 0
        /\ ResultErrors > 0 => exit_status = 1

\* a finished run whose results hold warnings and no error
C1_Witness ==
    /\ pc = "exited"
    /\ ResultWarnings > 0 /\ ResultErrors = 0
    /\ exit_status = 0

\* ---------------------------------------------------------------- C2

\* C2: a command whose tool could not be started has a returned result with
\* a non-zero status and an error text, no exception leaves a worker, and
\* the run has one result per command, in the order of the commands.
C2_LaunchFailureIsContained ==
    /\ pc # "crashed"
    /\ \A i \in DOMAIN futures :
          proc[i].state = "no_launch" =>
              /\ futures[i].kind = "returned"
              /\ futures[i].result.returncode # 0
              /\ futures[i].result.stderr # <<>>
    /\ pc \in {"returned", "exited"} =>
          /\ Len(results) = Len(clang_tidy_commands)
          /\ \A i \in 1..Len(results) :
                /\ results[i].result.args = clang_tidy_commands[i].cmd
                /\ results[i].package_name = clang_tidy_commands[i].package_name

\* a finished run in which one tool could not be started and another ran and
\* wrote output
C2_Witness ==
    /\ pc = "exited"
    /\ \E i \in DOMAIN proc : proc[i].state = "no_launch"
    /\ \E j \in DOMAIN proc :
          /\ proc[j].state = "exited"
          /\ results[j].result.stdout # <<>>
          /\ results[j].result.stdout = proc[j].stdout

\* ---------------------------------------------------------------- C3

Running == {i \in DOMAIN proc : proc[i].state = "running"}

\* C3: never more tool processes run at once than --jobs says, no command
\* is started twice, and every command is started in the end.
C3_BoundedPoolRunsEachOnce ==
    /\ [](Cardinality(Running) <= args.jobs)
    /\ [](\A i \in DOMAIN launches : launches[i] <= 1)
    /\ <>(clang_tidy_commands # <<>> /\ \A i \in DOMAIN launches : launches[i] = 1)

\* as many tools run as --jobs allows while a command waits in the queue
C3_Witness ==
    /\ pc = "dispatch"
    /\ Cardinality(Running) = args.jobs
    /\ Queued # {}

\* ---------------------------------------------------------------- C4

\* C4: nothing but an absent install directory ends the run early; a package
\* with source files and no compile_commands.json does not.
C4_OnlyMissingInstallAborts == scan_pc = "aborted" => ~install_exists

\* ---------------------------------------------------------------- C5

\* C5: no two workers hold the log file of one package open at once.
C5_LogAppendsExclusive ==
    \A v, w \in DOMAIN workers :
        (v # w /\ workers[v].pc = "log_open" /\ workers[w].pc = "log_open") =>
            PackageOf(workers[v].task) # PackageOf(workers[w].task)

\* ---------------------------------------------------------------- C6

\* the source files of a package that its manifest names, from the disk alone
MatchingFiles(name) ==
    IF install_dirs[name].has_xml /\ install_dirs[name].manifest_exists
    THEN (1..install_dirs[name].found) \cap install_dirs[name].built
    ELSE {}

\* C6: during and after construction and after any calls of select_packages
\* and apply_base_path_filter, package_paths and package_cpp_files have the
\* same keys, every listed package has a file, and a package without a
\* matching file is neither listed nor among the --packages-select choices.
C6_SameKeysNonEmpty ==
    /\ Keys(package_paths) = Keys(package_cpp_files)
    /\ Cardinality(Range(Keys(package_paths))) = Len(package_paths)
    /\ \A i \in 1..Len(package_cpp_files) : Len(package_cpp_files[i].files) > 0
    /\ \A name \in PackageNames :
          (install_dirs # <<>> /\ MatchingFiles(name) = {}) =>
              name \notin Range(Keys(package_paths)) \cup Range(choices)
    /\ abort_cause # "KeyError"

\* two packages with source files, one with none of them built, after a call
\* that kept the other
C6_Witness ==
    /\ scan_pc = "ready"
    /\ hist.ops # <<>>
    /\ \E name \in PackageNames :
          /\ install_dirs[name].has_xml /\ install_dirs[name].manifest_exists
          /\ install_dirs[name].found > 0 /\ MatchingFiles(name) = {}
    /\ Len(package_paths) = 1
    /\ Len(package_cpp_files[1].files) = 1 /\ install_dirs[package_paths[1].name].found = 2

\* ---------------------------------------------------------------- C7

\* C7: a select_packages call and an apply_base_path_filter call, made one
\* after the other, leave the scanner as the two calls made in the other
\* order from the same start would.
C7_SelectAndFilterCommute ==
    (Len(hist.ops) = 2 /\ hist.ops[1].op # hist.ops[2].op) =>
        LET first == ApplyOp(hist.pre.paths, hist.pre.files, hist.ops[2])
            second == ApplyOp(first.paths, first.files, hist.ops[1])
        IN  /\ package_paths = second.paths
            /\ package_cpp_files = second.files
            /\ ~second.error /\ scan_pc = "ready"

\* two packages, a selection that keeps one and a base path that keeps the
\* other, applied in this order: none is left
C7_Witness ==
    /\ Len(hist.ops) = 2
    /\ hist.ops[1].op = "select" /\ hist.ops[2].op = "filter"
    /\ Len(hist.pre.paths) = 2
    /\ Len(ApplyOp(hist.pre.paths, hist.pre.files, hist.ops[1]).paths) = 1
    /\ Len(ApplyOp(hist.pre.paths, hist.pre.files, hist.ops[2]).paths) = 1
    /\ package_paths = <<>>

\* ---------------------------------------------------------------- C8

\* an option counts as set when it is neither None nor the empty string
IsSet(value) == value \notin {None, <<"">>}

\* the five optional flags in their order, each with whether it is set and
\* the argument it then contributes
OptionalFlags ==
    <<  [on |-> IsSet(cmd_args.config), arg |-> <<"--config=">> \o cmd_args.config],
        [on |-> IsSet(cmd_args.config_file), arg |-> <<"--config-file=">> \o cmd_args.config_file],
        [on |-> cmd_args.fix_errors, arg |-> <<"--fix-errors">>],
        [on |-> IsSet(cmd_args.export_fixes_path),
         arg |-> <<"--export-fixes=">> \o cmd_args.export_fixes_path],
        [on |-> cmd_args.use_color, arg |-> <<"--use-color">>]  >>

FlagNames ==
    <<"--config=", "--config-file=", "--fix-errors", "--export-fixes=", "--use-color">>

Positions(flag) == {i \in 1..Len(command) : command[i][1] = flag}

\* what unset options are replaced by: None and False
Unset(a) ==
    [a EXCEPT !.config = IF IsSet(@) THEN @ ELSE None,
              !.config_file = IF IsSet(@) THEN @ ELSE None,
              !.export_fixes_path = IF IsSet(@) THEN @ ELSE None]

\* C8: the command is the tool, "-p", build/<package>, the header filter, then
\* the flag of each set option exactly once and in the fixed order, no flag
\* of an unset option (None and "" alike), and the target file last.
C8_CommandShape ==
    cmd_pc = "done" =>
        /\ Len(command) = 5 + Cardinality({k \in 1..5 : OptionalFlags[k].on})
        /\ command[1] = <<cmd_args.clang_tidy_cmd>>
        /\ command[2] = <<"-p">>
        /\ command[3] = <<"build/", cmd_args.package_name>>
        /\ command[4] = <<"--header-filter=", cmd_args.package_path, "/.*">>
        /\ command[Len(command)] = <<cmd_args.source_file>>
        /\ \A k \in 1..5 :
              /\ Cardinality(Positions(FlagNames[k])) = IF OptionalFlags[k].on THEN 1 ELSE 0
              /\ \A i \in Positions(FlagNames[k]) :
                    /\ command[i] = OptionalFlags[k].arg
                    /\ 4 < i /\ i < Len(command)
                    /\ \A l \in 1..5 : \A j \in Positions(FlagNames[l]) : k < l => i < j
        /\ command = BuildCommand(Unset(cmd_args))

\* a built command with the fix flag and the color flag set, and an option
\* given as the empty string
C8_Witness ==
    /\ cmd_pc = "done"
    /\ cmd_args.fix_errors /\ cmd_args.use_color
    /\ cmd_args.config = <<"">> /\ cmd_args.export_fixes_path = None
    /\ cmd_args.config_file = <<".clang-tidy">>
    /\ Len(command) = 8

\* ---------------------------------------------------------------- C9

\* a name that equals "test" when case is ignored
IsTestName(n) ==
    /\ Len(n) = 4
    /\ n[1] \in {"t", "T"} /\ n[2] \in {"e", "E"}
    /\ n[3] \in {"s", "S"} /\ n[4] \in {"t", "T"}

\* a path is <<root, dir, ..., dir, file>>
DirsBelowRoot(path) == {path[i] : i \in 2..(Len(path) - 1)}
DirsWithRoot(path) == {path[i] : i \in 1..(Len(path) - 1)}

HasSourceSuffix(file_name) ==
    LET i == RFindDot(file_name)
        ext == IF 1 < i /\ i < Len(file_name)
               THEN SubSeq(file_name, i + 1, Len(file_name)) ELSE <<>>
    IN  \/ Len(ext) = 1 /\ ext[1] \in {"c", "C"}
        \/ Len(ext) = 2 /\ ext[1] \in {"c", "C"} /\ ext[2] \in {"c", "C"}
        \/ Len(ext) = 3 /\ ext[1] \in {"c", "C"} /\ ext[2] \in {"p", "P"} /\ ext[3] \in {"p", "P"}

AllFilePaths == {Append(PathOf(d), FileNames[k]) : d \in Dirs, k \in 1..Len(FileNames)}

\* C9 as stated: find_cpp_files returns no file that lies inside a directory
\* named test (case ignored) at any depth, the package root included, and it
\* returns every source file outside such directories.
C9_NoTestDirAtAll ==
    walk_pc = "done" =>
        \A p \in AllFilePaths :
            p \in Range(cpp_files) <=>
                (HasSourceSuffix(p[Len(p)]) /\ \A n \in DirsWithRoot(p) : ~IsTestName(n))

\* C9 as amended: find_cpp_files returns exactly the files with a source
\* suffix that lie in no directory below the package root named test (case
\* ignored); the name of the package root itself is not examined.
C9_NoTestDirBelowRoot ==
    walk_pc = "done" =>
        \A p \in AllFilePaths :
            p \in Range(cpp_files) <=>
                (HasSourceSuffix(p[Len(p)]) /\ \A n \in DirsBelowRoot(p) : ~IsTestName(n))

\* a finished walk of a package whose root is itself called test and which
\* holds a TEST directory two levels down: the root's files are returned
C9_Witness ==
    /\ walk_pc = "done"
    /\ tree_name[1] = NameTest
    /\ \E d \in Dirs \ {1} : tree_parent[d] # 1 /\ tree_name[d] = <<"T", "E", "S", "T">>
    /\ \E p \in Range(cpp_files) : <<"t", "e", "s", "t", "s">> \in DirsBelowRoot(p)
    /\ \E p \in Range(cpp_files) : p[Len(p)] = <<"b", ".", "C", "C">>

\* ---------------------------------------------------------------- C10

EmittedErrors ==
    SeqSum([i \in 1..Len(proc) |-> Count(proc[i].stdout, "error: ")])

EmittedWarnings ==
    SeqSum([i \in 1..Len(proc) |-> Count(proc[i].stdout, "warning: ")])

\* C10: the result of a tool that ran keeps the tool's standard output also
\* when the log could not be written, so the totals and the exit status
\* count every marker the tools wrote.
C10_LogFailureKeepsOutput ==
    /\ \A i \in DOMAIN futures :
          (proc[i].state = "exited" /\ futures[i].kind # "pending") =>
              futures[i].result.stdout = proc[i].stdout
    /\ pc = "exited" =>
          /\ total_errors = EmittedErrors
          /\ total_warnings = EmittedWarnings
          /\ exit_status = IF EmittedErrors > 0 THEN 1 ELSE 0

====
